---- MODULE Spec2Model ----
(***************************************************************************)
(* ICMP packet engine of jnet (src/src/icmp.rs): a typed view             *)
(* Packet<BUFFER, TYPE, CHECKSUM> over a byte buffer, with a subtype      *)
(* marker (Unknown, EchoRequest, EchoReply) and a checksum marker         *)
(* (Valid, Invalid).                                                      *)
(*                                                                         *)
(* Buffers are sequences of bytes; the code's 0-based offset i is element *)
(* i + 1 of the sequence.  A packet is a record [buffer, type, checksum]. *)
(* ipv4::compute_checksum, ipv4::verify_checksum and the conversions the  *)
(* full_range! macro generates for Type live outside icmp.rs.             *)
(***************************************************************************)
EXTENDS Integers, Sequences, FiniteSets

VARIABLES
    pc,       \* "raw": the caller holds bytes; "packet"; "panicked"
    bytes,    \* the caller's buffer while pc = "raw" (or at the panic)
    packet,   \* the live Packet value while pc = "packet"
    last      \* the last call: its name, input, argument, result

vars == <<pc, bytes, packet, last>>

-----------------------------------------------------------------------------
(* Packet structure, icmp.rs:21-30 *)

TYPE == 0
CODE == 1
CHECKSUM_start == 2
CHECKSUM_end == 4
IDENT_start == 4
IDENT_end == 6
SEQ_NO_start == 6
SEQ_NO_end == 8
PAYLOAD_start == 8
HEADER_SIZE == PAYLOAD_start

(* Bounds of the model *)
MaxPayload == 2

U8 == 0..255
U16_MOD == 65536

at(b, i) == b[i + 1]

-----------------------------------------------------------------------------
(* byteorder::NetworkEndian *)

read_u16(b, start) == at(b, start) * 256 + at(b, start + 1)

write_u16(b, start, v) ==
    [i \in DOMAIN b |->
        IF i = start + 1 THEN (v \div 256) % 256
        ELSE IF i = start + 2 THEN v % 256
        ELSE b[i]]

-----------------------------------------------------------------------------
(* Internet checksum (ipv4::compute_checksum, ipv4::verify_checksum) *)

NumWords(b) == (Len(b) + 1) \div 2

\* k-th 16-bit big-endian word; an odd trailing byte is padded with a zero
\* low byte
Word(b, k) ==
    b[2 * k + 1] * 256 + (IF 2 * k + 2 <= Len(b) THEN b[2 * k + 2] ELSE 0)

\* the accumulator is wider than 16 bits; it cannot overflow below 65537 words
RECURSIVE SumWords(_, _)
SumWords(b, k) ==
    IF k >= NumWords(b) THEN 0 ELSE Word(b, k) + SumWords(b, k + 1)

RECURSIVE Fold(_)
Fold(s) == IF s > 65535 THEN Fold((s % U16_MOD) + (s \div U16_MOD)) ELSE s

ZeroField(b, pos) ==
    [i \in DOMAIN b |-> IF i = pos + 1 \/ i = pos + 2 THEN 0 ELSE b[i]]

compute_checksum(b, cksum_pos) ==
    65535 - Fold(SumWords(ZeroField(b, cksum_pos), 0))

verify_checksum(b) == Fold(SumWords(b, 0)) = 65535

-----------------------------------------------------------------------------
(* Type: full_range!(u8, enum Type { EchoReply = 0,                        *)
(* DestinationUnreachable = 3, EchoRequest = 8 }), with a catch-all that   *)
(* keeps the byte of any other code.                                       *)

EchoReplyCode == 0
DestinationUnreachableCode == 3
EchoRequestCode == 8

Type_EchoReply == [variant |-> "EchoReply", value |-> EchoReplyCode]
Type_DestinationUnreachable ==
    [variant |-> "DestinationUnreachable", value |-> DestinationUnreachableCode]
Type_EchoRequest == [variant |-> "EchoRequest", value |-> EchoRequestCode]
Type_Unknown(b) == [variant |-> "Unknown", value |-> b]

\* impl From<u8> for Type
Type_from_u8(b) ==
    IF b = EchoReplyCode THEN Type_EchoReply
    ELSE IF b = DestinationUnreachableCode THEN Type_DestinationUnreachable
    ELSE IF b = EchoRequestCode THEN Type_EchoRequest
    ELSE Type_Unknown(b)

\* a registry that saturates codes it does not know
u8_from_Type_saturating(t) ==
    IF t.variant = "EchoReply" THEN EchoReplyCode
    ELSE IF t.variant = "DestinationUnreachable" THEN DestinationUnreachableCode
    ELSE IF t.variant = "EchoRequest" THEN EchoRequestCode
    ELSE 255

\* impl From<Type> for u8
u8_from_Type(t) ==
    IF t.variant = "EchoReply" THEN EchoReplyCode
    ELSE IF t.variant = "DestinationUnreachable" THEN DestinationUnreachableCode
    ELSE IF t.variant = "EchoRequest" THEN EchoRequestCode
    ELSE t.value

-----------------------------------------------------------------------------
(* Packet values *)

NoPacket == [buffer |-> <<>>, type |-> "None", checksum |-> "None"]

\* unsafe fn unchecked: relabels the buffer, reads and writes nothing
unchecked(buffer, T, C) == [buffer |-> buffer, type |-> T, checksum |-> C]

as_bytes(p) == p.buffer

get_type(p) ==
    IF p.type = "EchoReply" THEN Type_EchoReply
    ELSE IF p.type = "EchoRequest" THEN Type_EchoRequest
    ELSE Type_from_u8(at(p.buffer, TYPE))

get_code(p) ==
    IF p.type = "EchoReply" THEN 0
    ELSE IF p.type = "EchoRequest" THEN 0
    ELSE at(p.buffer, CODE)

payload(p) == SubSeq(p.buffer, PAYLOAD_start + 1, Len(p.buffer))

len(p) == Len(p.buffer) % U16_MOD

get_checksum(p) == read_u16(p.buffer, CHECKSUM_start)

get_identifier(p) == read_u16(p.buffer, IDENT_start)

get_sequence_number(p) == read_u16(p.buffer, SEQ_NO_start)

\* Packet<B, Unknown, Invalid>::set_type / set_code: one byte, in place
set_type(p, type_) ==
    [p EXCEPT !.buffer = [p.buffer EXCEPT ![TYPE + 1] = u8_from_Type(type_)]]

set_code(p, code) ==
    [p EXCEPT !.buffer = [p.buffer EXCEPT ![CODE + 1] = code]]

\* set_identifier that writes the field little-endian
set_identifier_little_endian(p, ident) ==
    [p EXCEPT !.buffer =
        write_u16(p.buffer, IDENT_start, (ident % 256) * 256 + ident \div 256)]

set_identifier(p, ident) ==
    [p EXCEPT !.buffer = write_u16(p.buffer, IDENT_start, ident)]

\* set_sequence_number that writes over the identifier
set_sequence_number_wrong_field(p, seq_no) ==
    [p EXCEPT !.buffer = write_u16(p.buffer, IDENT_start, seq_no)]

set_sequence_number(p, seq_no) ==
    [p EXCEPT !.buffer = write_u16(p.buffer, SEQ_NO_start, seq_no)]

\* payload_mut: a mutable view of bytes 8..; one write through it
payload_mut_write(p, i, v) ==
    [p EXCEPT !.buffer = [p.buffer EXCEPT ![PAYLOAD_start + i + 1] = v]]

invalidate_header_checksum(p) == unchecked(p.buffer, p.type, "Invalid")

\* update_checksum that relabels without writing the field
update_checksum_unwritten(p) == unchecked(p.buffer, p.type, "Valid")

\* update_checksum that skips the wrong field while summing
update_checksum_wrong_pos(p) ==
    LET cksum == compute_checksum(as_bytes(p), IDENT_start)
    IN  unchecked(write_u16(p.buffer, CHECKSUM_start, cksum), p.type, "Valid")

\* update_checksum that writes the field little-endian
update_checksum_little_endian(p) ==
    LET cksum == compute_checksum(as_bytes(p), CHECKSUM_start)
    IN  unchecked(
            write_u16(p.buffer, CHECKSUM_start, (cksum % 256) * 256 + cksum \div 256),
            p.type, "Valid")

update_checksum(p) ==
    LET cksum == compute_checksum(as_bytes(p), CHECKSUM_start)
    IN  unchecked(write_u16(p.buffer, CHECKSUM_start, cksum), p.type, "Valid")

\* a consuming set_type that forgets to invalidate
set_type_valid_keeps_label(p, type_) == set_type(p, type_)

\* Packet<B, Unknown, Valid>::set_type / set_code: consuming
set_type_valid(p, type_) == set_type(invalidate_header_checksum(p), type_)

\* a consuming set_code that forgets to invalidate
set_code_valid_keeps_label(p, code) == set_code(p, code)

set_code_valid(p, code) == set_code(invalidate_header_checksum(p), code)

\* an assertion that also rejects a buffer of exactly the header size
new_asserts_strict(buffer) == Len(buffer) > HEADER_SIZE

\* a constructor that leaves the code byte as it found it
new_without_code(buffer) ==
    LET p0 == unchecked(buffer, "Unknown", "Invalid")
        p1 == set_type(p0, Type_EchoRequest)
    IN  unchecked(p1.buffer, "EchoRequest", "Invalid")

\* Packet<B, EchoRequest, Invalid>::new; the assertion is new_asserts
new_asserts(buffer) == Len(buffer) >= HEADER_SIZE

new(buffer) ==
    LET p0 == unchecked(buffer, "Unknown", "Invalid")
        p1 == set_type(p0, Type_EchoRequest)
        p2 == set_code(p1, 0)
    IN  unchecked(p2.buffer, "EchoRequest", "Invalid")

\* parse without the length check
parse_ok_no_length_check(b) ==
    verify_checksum(as_bytes(unchecked(b, "Unknown", "Valid")))

\* parse that checks the length alone
parse_ok_length_only(b) == Len(b) >= HEADER_SIZE

\* Packet<B, Unknown, Valid>::parse: [ok, packet] or [~ok, the bytes back]
parse_ok(b) ==
    IF Len(b) < HEADER_SIZE THEN FALSE
    ELSE verify_checksum(as_bytes(unchecked(b, "Unknown", "Valid")))

parse(b) ==
    IF parse_ok(b)
    THEN [ok |-> TRUE, packet |-> unchecked(b, "Unknown", "Valid"), err |-> <<>>]
    ELSE [ok |-> FALSE, packet |-> NoPacket, err |-> b]

\* TryFrom<Packet<B, Unknown, C>> for Packet<B, EchoReply, C>
try_from_EchoReply_ok(p) == get_type(p) = Type_EchoReply /\ get_code(p) = 0

try_from_EchoReply(p) ==
    IF try_from_EchoReply_ok(p)
    THEN [ok |-> TRUE, packet |-> unchecked(p.buffer, "EchoReply", p.checksum)]
    ELSE [ok |-> FALSE, packet |-> p]

\* a downcast that checks the type byte alone
try_from_EchoRequest_ok_type_only(p) == get_type(p) = Type_EchoRequest

\* TryFrom<Packet<B, Unknown, C>> for Packet<B, EchoRequest, C>
try_from_EchoRequest_ok(p) == get_type(p) = Type_EchoRequest /\ get_code(p) = 0

try_from_EchoRequest(p) ==
    IF try_from_EchoRequest_ok(p)
    THEN [ok |-> TRUE, packet |-> unchecked(p.buffer, "EchoRequest", p.checksum)]
    ELSE [ok |-> FALSE, packet |-> p]

\* downcast::<TYPE>() is self.try_into()
downcast(p, S) ==
    IF S = "EchoReply" THEN try_from_EchoReply(p) ELSE try_from_EchoRequest(p)

\* a conversion that keeps the request's checksum
from_EchoRequest_stale_checksum(p) ==
    LET p1 == set_type(unchecked(p.buffer, "Unknown", "Invalid"), Type_EchoReply)
    IN  unchecked(p1.buffer, "EchoReply", "Valid")

\* From<Packet<B, EchoRequest, C>> for Packet<B, EchoReply, Valid>
from_EchoRequest(p) ==
    LET p1 == set_type(unchecked(p.buffer, "Unknown", "Invalid"), Type_EchoReply)
        p2 == unchecked(p1.buffer, "EchoReply", "Invalid")
    IN  update_checksum(p2)

\* Clone: a packet over a copy of the buffer, with the same markers
clone(p) == [buffer |-> p.buffer, type |-> p.type, checksum |-> p.checksum]

-----------------------------------------------------------------------------
(* Inputs: the byte buffers a caller hands in, and the setters' arguments *)

ByteSamples == {0, 255}
TypeBytes == {EchoReplyCode, DestinationUnreachableCode, EchoRequestCode, 255}
CodeBytes == {0, 255}
IdentFields == {<<0, 0>>, <<255, 255>>}
SeqFields == {<<0, 0>>, <<0, 2>>}

TypeArgs ==
    {Type_EchoReply, Type_DestinationUnreachable, Type_EchoRequest, Type_Unknown(255)}
CodeArgs == {0, 255}
IdentArgs == {4, 65535}
SeqArgs == {2}

\* buffers too short for a header, some of which pass verify_checksum
ShortBuffers ==
    {[i \in 1..n |-> v] : n \in 0..(HEADER_SIZE - 1), v \in ByteSamples}

\* header-sized buffers whose checksum field holds sample bytes
SampledBuffers ==
    {<<t, c, k[1], k[2]>> \o id \o sq \o pl :
        t \in TypeBytes, c \in CodeBytes, k \in {<<0, 0>>, <<255, 255>>},
        id \in IdentFields, sq \in SeqFields,
        pl \in UNION {[1..n -> ByteSamples] : n \in 0..MaxPayload}}

\* the same buffers as a sender with a correct checksum would emit them
WellFormedBuffers ==
    {write_u16(b, CHECKSUM_start, compute_checksum(b, CHECKSUM_start)) :
        b \in SampledBuffers}

RawBuffers == ShortBuffers \cup SampledBuffers \cup WellFormedBuffers

NoCall == [op |-> "none", ok |-> TRUE, arg |-> 0, pre |-> NoPacket, out |-> NoPacket]

Call(op, ok, arg, pre, out) ==
    [op |-> op, ok |-> ok, arg |-> arg, pre |-> pre, out |-> out]

\* the caller's bytes, seen as the input of a constructor
Raw(b) == [buffer |-> b, type |-> "None", checksum |-> "None"]

Init ==
    /\ pc = "raw"
    /\ bytes \in RawBuffers
    /\ packet = NoPacket
    /\ last = NoCall

-----------------------------------------------------------------------------
(* Actions: one per public operation *)

\* Packet::new(buffer), icmp.rs:63
New ==
    /\ pc = "raw"
    /\ IF new_asserts(bytes)
       THEN /\ pc' = "packet"
            /\ packet' = new(bytes)
            /\ bytes' = <<>>
            /\ last' = Call("new", TRUE, 0, Raw(bytes), new(bytes))
       ELSE /\ pc' = "panicked"
            /\ UNCHANGED <<bytes, packet>>
            /\ last' = Call("new", FALSE, 0, Raw(bytes), NoPacket)

\* Packet::parse(bytes), icmp.rs:117
Parse ==
    /\ pc = "raw"
    /\ LET r == parse(bytes)
       IN  IF r.ok
           THEN /\ pc' = "packet"
                /\ packet' = r.packet
                /\ bytes' = <<>>
                /\ last' = Call("parse", TRUE, 0, Raw(bytes), r.packet)
           ELSE /\ pc' = "raw"
                /\ bytes' = r.err
                /\ packet' = NoPacket
                /\ last' = Call("parse", FALSE, 0, Raw(bytes), NoPacket)

\* Packet::parse(other.as_bytes()): the bytes of a live packet, parsed again
ParseAsBytes ==
    /\ pc = "packet"
    /\ LET r == parse(as_bytes(packet))
       IN  IF r.ok
           THEN /\ packet' = r.packet
                /\ last' = Call("parse", TRUE, 0, Raw(as_bytes(packet)), r.packet)
                /\ UNCHANGED <<pc, bytes>>
           ELSE /\ pc' = "raw"
                /\ bytes' = r.err
                /\ packet' = NoPacket
                /\ last' = Call("parse", FALSE, 0, Raw(as_bytes(packet)), NoPacket)

Step(op, ok, arg, q) ==
    /\ packet' = q
    /\ last' = Call(op, ok, arg, packet, q)
    /\ UNCHANGED <<pc, bytes>>

\* set_type offered on a packet of any subtype
SetType_any_subtype ==
    /\ pc = "packet"
    /\ \E t \in TypeArgs :
        Step("set_type", TRUE, u8_from_Type(t),
             IF packet.checksum = "Valid" THEN set_type_valid(packet, t)
             ELSE set_type(packet, t))

\* set_type on Unknown: in place when Invalid, consuming when Valid
SetType ==
    /\ pc = "packet" /\ packet.type = "Unknown"
    /\ \E t \in TypeArgs :
        Step("set_type", TRUE, u8_from_Type(t),
             IF packet.checksum = "Valid" THEN set_type_valid(packet, t)
             ELSE set_type(packet, t))

SetCode ==
    /\ pc = "packet" /\ packet.type = "Unknown"
    /\ \E c \in CodeArgs :
        Step("set_code", TRUE, c,
             IF packet.checksum = "Valid" THEN set_code_valid(packet, c)
             ELSE set_code(packet, c))

\* get_identifier / get_sequence_number: E: Echo, either marker
GetIdentifier ==
    /\ pc = "packet" /\ packet.type \in {"EchoReply", "EchoRequest"}
    /\ Step("get_identifier", TRUE, get_identifier(packet), packet)

GetSequenceNumber ==
    /\ pc = "packet" /\ packet.type \in {"EchoReply", "EchoRequest"}
    /\ Step("get_sequence_number", TRUE, get_sequence_number(packet), packet)

\* set_identifier offered whatever the checksum marker
SetIdentifier_any_marker ==
    /\ pc = "packet" /\ packet.type \in {"EchoReply", "EchoRequest"}
    /\ \E x \in IdentArgs :
        Step("set_identifier", TRUE, x,
             set_identifier(invalidate_header_checksum(packet), x))

\* set_identifier / set_sequence_number: E: Echo, Invalid only
SetIdentifier ==
    /\ pc = "packet" /\ packet.type \in {"EchoReply", "EchoRequest"}
    /\ packet.checksum = "Invalid"
    /\ \E x \in IdentArgs : Step("set_identifier", TRUE, x, set_identifier(packet, x))

SetSequenceNumber ==
    /\ pc = "packet" /\ packet.type \in {"EchoReply", "EchoRequest"}
    /\ packet.checksum = "Invalid"
    /\ \E y \in SeqArgs :
        Step("set_sequence_number", TRUE, y, set_sequence_number(packet, y))

\* payload_mut()[i] = v: Invalid only, any subtype
PayloadMut ==
    /\ pc = "packet" /\ packet.checksum = "Invalid"
    /\ \E i \in 0..(Len(payload(packet)) - 1), v \in ByteSamples :
        Step("payload_mut", TRUE, v, payload_mut_write(packet, i, v))

UpdateChecksum ==
    /\ pc = "packet" /\ packet.checksum = "Invalid"
    /\ Step("update_checksum", TRUE, 0, update_checksum(packet))

Downcast ==
    /\ pc = "packet" /\ packet.type = "Unknown"
    /\ \E S \in {"EchoReply", "EchoRequest"} :
        LET r == downcast(packet, S)
        IN  Step(IF S = "EchoReply" THEN "downcast_EchoReply"
                 ELSE "downcast_EchoRequest", r.ok, 0, r.packet)

IntoEchoReply ==
    /\ pc = "packet" /\ packet.type = "EchoRequest"
    /\ Step("into_EchoReply", TRUE, 0, from_EchoRequest(packet))

\* bit k (0..15, 0 the lowest bit of byte 3) of the checksum field, inverted
Pow2(n) == IF n = 0 THEN 1 ELSE IF n = 1 THEN 2 ELSE IF n = 2 THEN 4
           ELSE IF n = 3 THEN 8 ELSE IF n = 4 THEN 16 ELSE IF n = 5 THEN 32
           ELSE IF n = 6 THEN 64 ELSE 128

FlipBit(b, k) ==
    LET i == CHECKSUM_end - (k \div 8)
        w == Pow2(k % 8)
    IN  [b EXCEPT ![i] = IF (b[i] \div w) % 2 = 1 THEN b[i] - w ELSE b[i] + w]

\* Packet::parse on bytes parse accepts, after one bit of the checksum field
\* was inverted on the way
ParseFlipped ==
    /\ pc \in {"raw", "packet"}
    /\ LET cur == IF pc = "packet" THEN as_bytes(packet) ELSE bytes
       IN  /\ parse(cur).ok
           /\ \E k \in 0..15 :
                LET c == FlipBit(cur, k)
                    r == parse(c)
                IN  IF r.ok
                    THEN /\ pc' = "packet"
                         /\ packet' = r.packet
                         /\ bytes' = <<>>
                         /\ last' = Call("parse_flipped", TRUE, k, Raw(c), r.packet)
                    ELSE /\ pc' = "raw"
                         /\ bytes' = r.err
                         /\ packet' = NoPacket
                         /\ last' = Call("parse_flipped", FALSE, k, Raw(c), NoPacket)

\* clone(): the copy is handed out in last.out; the original lives on
Clone ==
    /\ pc = "packet"
    /\ last' = Call("clone", TRUE, 0, packet, clone(packet))
    /\ UNCHANGED <<pc, bytes, packet>>

-----------------------------------------------------------------------------
(* The Type registry on its own: a byte, decoded as get_type does and      *)
(* encoded again as set_type does                                          *)

InitType ==
    /\ pc = "byte"
    /\ bytes \in {<<b>> : b \in U8}
    /\ packet = NoPacket
    /\ last = NoCall

\* self.as_ref()[TYPE].into(), icmp.rs:245
IntoType ==
    /\ pc = "byte"
    /\ pc' = "symbol"
    /\ bytes' = <<>>
    /\ last' = Call("into_Type", TRUE, bytes[1], NoPacket, Type_from_u8(bytes[1]))
    /\ UNCHANGED packet

\* self.as_mut()[TYPE] = type_.into(), icmp.rs:139
IntoU8 ==
    /\ pc = "symbol"
    /\ pc' = "byte_again"
    /\ bytes' = <<u8_from_Type(last.out)>>
    /\ UNCHANGED <<packet, last>>

NextType ==
    \/ IntoType
    \/ IntoU8

SpecType == InitType /\ [][NextType]_vars

-----------------------------------------------------------------------------
(* tests::construct followed by tests::parse: an Echo Request built field  *)
(* by field over an array of arbitrary content, then parsed back.  last    *)
(* keeps the array as it was and the pair <<identifier, sequence number>>. *)

BuildArrays ==
    UNION {[1..n -> ByteSamples] : n \in HEADER_SIZE..(HEADER_SIZE + MaxPayload)}
BuildIdents == {0, 4, 258, 65535}
BuildSeqs == {0, 2, 65535}

InitBuild ==
    /\ pc = "array"
    /\ bytes \in BuildArrays
    /\ packet = NoPacket
    /\ \E i \in BuildIdents, q \in BuildSeqs :
        last = Call("construct", TRUE, <<i, q>>, Raw(bytes), NoPacket)

\* ip.echo_request(..): icmp::Packet::new over the array
BuildNew ==
    /\ pc = "array"
    /\ pc' = "new"
    /\ packet' = new(bytes)
    /\ bytes' = <<>>
    /\ UNCHANGED last

\* icmp.set_identifier(i)
BuildSetIdentifier ==
    /\ pc = "new"
    /\ pc' = "identified"
    /\ packet' = set_identifier(packet, last.arg[1])
    /\ UNCHANGED <<bytes, last>>

\* icmp.set_sequence_number(s)
BuildSetSequenceNumber ==
    /\ pc = "identified"
    /\ pc' = "numbered"
    /\ packet' = set_sequence_number(packet, last.arg[2])
    /\ UNCHANGED <<bytes, last>>

\* the closure returns: update_checksum
BuildUpdateChecksum ==
    /\ pc = "numbered"
    /\ pc' = "built"
    /\ packet' = update_checksum(packet)
    /\ UNCHANGED <<bytes, last>>

\* icmp::Packet::parse(..) on the bytes built
BuildParse ==
    /\ pc = "built"
    /\ LET r == parse(as_bytes(packet))
       IN  IF r.ok
           THEN pc' = "parsed" /\ packet' = r.packet /\ UNCHANGED bytes
           ELSE pc' = "rejected" /\ packet' = NoPacket /\ bytes' = r.err
    /\ UNCHANGED last

\* .downcast::<icmp::EchoRequest>()
BuildDowncast ==
    /\ pc = "parsed"
    /\ LET r == downcast(packet, "EchoRequest")
       IN  /\ pc' = IF r.ok THEN "downcast" ELSE "not_downcast"
           /\ packet' = r.packet
    /\ UNCHANGED <<bytes, last>>

NextBuild ==
    \/ BuildNew
    \/ BuildSetIdentifier
    \/ BuildSetSequenceNumber
    \/ BuildUpdateChecksum
    \/ BuildParse
    \/ BuildDowncast

SpecBuild == InitBuild /\ [][NextBuild]_vars

-----------------------------------------------------------------------------
(* len() and payload() over buffers around the header size and around     *)
(* 65536 bytes                                                             *)

LenSpread == 20

BufferLengths ==
    (HEADER_SIZE..(HEADER_SIZE + LenSpread))
        \cup ((U16_MOD - LenSpread)..(U16_MOD + LenSpread))

InitLen ==
    /\ pc = "raw"
    /\ bytes \in {[i \in 1..n |-> 0] : n \in BufferLengths}
    /\ packet = NoPacket
    /\ last = NoCall

\* the calls below keep no copy of the buffer in last

\* Packet::new, icmp.rs:63
NewLen ==
    /\ pc = "raw"
    /\ new_asserts(bytes)
    /\ pc' = "packet"
    /\ packet' = new(bytes)
    /\ bytes' = <<>>
    /\ last' = Call("new", TRUE, 0, NoPacket, NoPacket)

\* Packet::len, icmp.rs:266
GetLen ==
    /\ pc = "packet"
    /\ last' = Call("len", TRUE, len(packet), NoPacket, NoPacket)
    /\ UNCHANGED <<pc, bytes, packet>>

\* Packet::payload, icmp.rs:261
GetPayload ==
    /\ pc = "packet"
    /\ last' = Call("payload", TRUE, Len(payload(packet)), NoPacket, NoPacket)
    /\ UNCHANGED <<pc, bytes, packet>>

NextLen ==
    \/ NewLen
    \/ GetLen
    \/ GetPayload

SpecLen == InitLen /\ [][NextLen]_vars

Next ==
    \/ New
    \/ Parse
    \/ ParseAsBytes
    \/ SetType
    \/ SetCode
    \/ GetIdentifier
    \/ GetSequenceNumber
    \/ SetIdentifier
    \/ SetSequenceNumber
    \/ PayloadMut
    \/ UpdateChecksum
    \/ Downcast
    \/ IntoEchoReply
    \/ Clone

Spec == Init /\ [][Next]_vars

\* the packet engine fed by a channel that may invert a checksum bit
NextCorrupt ==
    \/ Next
    \/ ParseFlipped

SpecCorrupt == Init /\ [][NextCorrupt]_vars

-----------------------------------------------------------------------------
(* Properties *)

\* every Packet value alive in a state: the current one, and a clone just made
LivePackets ==
    (IF pc = "packet" THEN {packet} ELSE {})
        \cup (IF last.op = "clone" THEN {last.out} ELSE {})

Header(b) == SubSeq(b, 1, HEADER_SIZE)

SameExcept(b1, b2, offsets) ==
    /\ Len(b1) = Len(b2)
    /\ \A i \in 0..(Len(b1) - 1) : i \notin offsets => at(b1, i) = at(b2, i)

\* C1 as stated: in every reachable state, the checksum field of a
\* Valid-marked packet equals compute_checksum over the whole buffer with
\* the field treated as zero.
C1_ValidFieldIsComputed ==
    \A p \in LivePackets :
        p.checksum = "Valid" =>
            get_checksum(p) = compute_checksum(as_bytes(p), CHECKSUM_start)

\* C1 amended: in every reachable state, the checksum field of a Valid-marked
\* packet equals compute_checksum over the whole buffer with the field
\* treated as zero, or holds 0xFFFF where compute_checksum gives 0x0000 (the
\* other one's-complement encoding of zero, which parse accepts).
C1_ValidFieldIsComputedUpToZero ==
    \A p \in LivePackets :
        p.checksum = "Valid" =>
            \/ get_checksum(p) = compute_checksum(as_bytes(p), CHECKSUM_start)
            \/ /\ get_checksum(p) = 65535
               /\ compute_checksum(as_bytes(p), CHECKSUM_start) = 0

\* a parsed packet whose field is 0xFFFF although compute_checksum gives 0
C1_Witness ==
    /\ pc = "packet" /\ last.op = "parse" /\ last.ok
    /\ packet.checksum = "Valid"
    /\ get_checksum(packet) = 65535
    /\ compute_checksum(as_bytes(packet), CHECKSUM_start) = 0

\* C2: parse(bytes) returns an Unknown/Valid packet over the same bytes iff
\* the length is >= 8 and verify_checksum over the full buffer succeeds;
\* otherwise it returns Err with the original buffer, same length and bytes;
\* it never writes to the buffer.
C2_ParseContract ==
    last.op = "parse" =>
        /\ last.ok <=>
            (Len(last.pre.buffer) >= 8 /\ verify_checksum(last.pre.buffer))
        /\ last.ok =>
            /\ pc = "packet"
            /\ packet = [buffer |-> last.pre.buffer, type |-> "Unknown",
                         checksum |-> "Valid"]
        /\ ~last.ok =>
            /\ pc = "raw"
            /\ bytes = last.pre.buffer
            /\ packet = NoPacket

\* parse rejected a buffer that is long enough, for its checksum
C2_Witness ==
    /\ last.op = "parse" /\ ~last.ok
    /\ Len(bytes) >= 8 /\ pc = "raw"

\* C3: update_checksum on an Invalid packet of any subtype returns a Valid
\* packet of the same subtype over the same buffer, bytes 2..4 holding
\* compute_checksum(input, 2) big-endian, every other byte and the length
\* unchanged; the value written does not depend on the old bytes 2..4.
C3_UpdateChecksum ==
    last.op = "update_checksum" =>
        /\ last.pre.checksum = "Invalid"
        /\ packet.checksum = "Valid"
        /\ packet.type = last.pre.type
        /\ SameExcept(packet.buffer, last.pre.buffer, {2, 3})
        /\ get_checksum(packet) = compute_checksum(last.pre.buffer, CHECKSUM_start)
        /\ at(packet.buffer, 2) = get_checksum(packet) \div 256
        /\ at(packet.buffer, 3) = get_checksum(packet) % 256
        /\ \A k \in {0, 1, 255, 256, 4660, 65535} :
             get_checksum(packet) =
                compute_checksum(write_u16(last.pre.buffer, 2, k), CHECKSUM_start)

\* update_checksum replaced a stale, non-zero field of an Unknown packet
C3_Witness ==
    /\ last.op = "update_checksum"
    /\ last.pre.type = "Unknown"
    /\ get_checksum(last.pre) # 0
    /\ get_checksum(last.pre) # get_checksum(packet)

SubtypeOf(op) == IF op = "downcast_EchoReply" THEN "EchoReply" ELSE "EchoRequest"

FixedCode(S) == IF S = "EchoReply" THEN 0 ELSE 8

\* C4: downcast::<S>() on an Unknown packet succeeds iff byte 0 is S's
\* code (8 for EchoRequest, 0 for EchoReply) and byte 1 is 0; on success the
\* result has subtype S, the same checksum marker and the same bytes; on
\* failure the original Unknown packet comes back, marker and bytes the same.
C4_Downcast ==
    last.op \in {"downcast_EchoReply", "downcast_EchoRequest"} =>
        /\ last.pre.type = "Unknown"
        /\ last.ok <=>
            /\ at(last.pre.buffer, 0) = FixedCode(SubtypeOf(last.op))
            /\ at(last.pre.buffer, 1) = 0
        /\ last.ok =>
            packet = [buffer |-> last.pre.buffer, type |-> SubtypeOf(last.op),
                      checksum |-> last.pre.checksum]
        /\ ~last.ok => packet = last.pre

\* a downcast to EchoRequest failed on the code byte alone
C4_Witness ==
    /\ last.op = "downcast_EchoRequest" /\ ~last.ok
    /\ at(last.pre.buffer, 0) = 8
    /\ at(last.pre.buffer, 1) # 0

\* C5: in every reachable state an EchoRequest packet has type byte 8 and
\* code byte 0, an EchoReply packet has type byte 0 and code byte 0; so
\* get_type() and get_code() of a known subtype equal what the live bytes
\* at offsets 0 and 1 decode to.
C5_SubtypeMatchesBytes ==
    \A p \in LivePackets :
        /\ p.type = "EchoRequest" => at(p.buffer, 0) = 8 /\ at(p.buffer, 1) = 0
        /\ p.type = "EchoReply" => at(p.buffer, 0) = 0 /\ at(p.buffer, 1) = 0
        /\ get_type(p) = Type_from_u8(at(p.buffer, TYPE))
        /\ get_code(p) = at(p.buffer, CODE)

\* new made an EchoRequest out of a buffer that held another type and code
C5_Witness ==
    /\ last.op = "new" /\ last.ok
    /\ at(last.pre.buffer, 0) # 8
    /\ at(last.pre.buffer, 1) # 0
    /\ pc = "packet" /\ packet.type = "EchoRequest"

\* C6: on a Valid packet set_type and set_code yield an Invalid packet, also
\* when the value written is the one stored; exactly the targeted byte is
\* written (offset 0, offset 1); and no operation changes a header byte and
\* leaves the packet Valid without recomputing the checksum.
C6_MutationDemotes ==
    /\ (last.op \in {"set_type", "set_code"} /\ last.pre.checksum = "Valid") =>
        /\ packet.checksum = "Invalid"
        /\ packet.type = last.pre.type
        /\ packet.buffer =
            [last.pre.buffer EXCEPT
                ![IF last.op = "set_type" THEN 1 ELSE 2] = last.arg]
    /\ (/\ pc = "packet"
        /\ last.pre.type # "None"
        /\ packet.checksum = "Valid"
        /\ Header(packet.buffer) # Header(last.pre.buffer)) =>
            /\ last.op \in {"update_checksum", "into_EchoReply"}
            /\ get_checksum(packet) =
                compute_checksum(as_bytes(packet), CHECKSUM_start)

\* set_type on a Valid packet wrote the type that was already stored
C6_Witness ==
    /\ last.op = "set_type" /\ last.pre.checksum = "Valid"
    /\ at(last.pre.buffer, 0) = last.arg
    /\ packet.checksum = "Invalid"

\* C7: EchoRequest -> EchoReply (from either marker) yields a Valid EchoReply
\* over a buffer of the same length, type byte 0, identifier, sequence
\* number, code byte and payload as in the input, and verify_checksum over
\* the whole result succeeds.
C7_EchoReplyTransform ==
    last.op = "into_EchoReply" =>
        /\ last.pre.type = "EchoRequest"
        /\ packet.type = "EchoReply"
        /\ packet.checksum = "Valid"
        /\ Len(packet.buffer) = Len(last.pre.buffer)
        /\ at(packet.buffer, 0) = 0
        /\ at(packet.buffer, 1) = at(last.pre.buffer, 1)
        /\ get_identifier(packet) = get_identifier(last.pre)
        /\ get_sequence_number(packet) = get_sequence_number(last.pre)
        /\ payload(packet) = payload(last.pre)
        /\ verify_checksum(as_bytes(packet))

\* an Invalid EchoRequest with a payload was turned into a reply
C7_Witness ==
    /\ last.op = "into_EchoReply"
    /\ last.pre.checksum = "Invalid"
    /\ Len(payload(packet)) > 0
    /\ get_checksum(packet) # get_checksum(last.pre)

CurrentBuffers ==
    (IF pc = "packet" THEN {packet.buffer} ELSE {bytes}) \cup {last.pre.buffer}

\* C8: for every buffer B of length >= 8, of even or odd length, with the
\* checksum field zeroed, B with compute_checksum(B, 2) written big-endian
\* into bytes 2..4 passes verify_checksum; so parse accepts the bytes of any
\* packet update_checksum returns.
C8_ChecksumRoundTrip ==
    /\ \A b \in CurrentBuffers :
        Len(b) >= 8 =>
            LET B == ZeroField(b, CHECKSUM_start)
            IN  verify_checksum(
                    write_u16(B, CHECKSUM_start, compute_checksum(B, CHECKSUM_start)))
    /\ last.op = "update_checksum" => parse(as_bytes(packet)).ok

\* update_checksum ran on an odd-length buffer
C8_Witness ==
    /\ last.op = "update_checksum"
    /\ Len(packet.buffer) % 2 = 1
    /\ parse(as_bytes(packet)).ok

\* C10: new on a buffer of length >= 8 returns an EchoRequest/Invalid packet
\* over the same buffer with type byte 8 and code byte 0 and the length
\* unchanged; on a shorter buffer it fails fatally, makes no packet and
\* writes no byte.
C10_New ==
    last.op = "new" =>
        /\ last.ok <=> Len(last.pre.buffer) >= 8
        /\ last.ok =>
            /\ pc = "packet"
            /\ packet.type = "EchoRequest"
            /\ packet.checksum = "Invalid"
            /\ at(packet.buffer, 0) = 8
            /\ at(packet.buffer, 1) = 0
            /\ SameExcept(packet.buffer, last.pre.buffer, {0, 1})
        /\ ~last.ok =>
            /\ pc = "panicked"
            /\ packet = NoPacket
            /\ bytes = last.pre.buffer

\* new panicked on a 7-byte buffer
C10_Witness ==
    /\ pc = "panicked" /\ last.op = "new"
    /\ Len(bytes) = 7

\* C9: for every byte b in 0..255, b converted to a Type and back to a byte
\* is b; 0 is EchoReply, 3 DestinationUnreachable, 8 EchoRequest; no two
\* distinct bytes give the same Type.
C9_TypeRoundTrip ==
    /\ pc = "byte_again" => bytes = <<last.arg>>
    /\ pc \in {"symbol", "byte_again"} =>
        /\ last.arg = 0 => last.out.variant = "EchoReply"
        /\ last.arg = 3 => last.out.variant = "DestinationUnreachable"
        /\ last.arg = 8 => last.out.variant = "EchoRequest"
        /\ \A b \in U8 : b # last.arg => Type_from_u8(b) # last.out

\* a byte no variant names came back from the round trip
C9_Witness ==
    /\ pc = "byte_again"
    /\ last.arg = 200
    /\ last.out.variant = "Unknown"
    /\ bytes = <<200>>

Hi(v) == (v \div 256) % 256
Lo(v) == v % 256

\* C11: for every initial content of an 8-byte buffer and every identifier i
\* and sequence number s, new; set_identifier(i); set_sequence_number(s);
\* update_checksum leaves [8, 0, ck_hi, ck_lo, i_hi, i_lo, s_hi, s_lo],
\* whatever the initial bytes (for i = 4, s = 2: [8, 0, 247, 249, 0, 4, 0, 2]).
C11_ConstructDetermined ==
    (pc = "built" /\ Len(last.pre.buffer) = 8) =>
        LET i == last.arg[1]
            q == last.arg[2]
            ck == compute_checksum(
                    <<8, 0, 0, 0, Hi(i), Lo(i), Hi(q), Lo(q)>>, CHECKSUM_start)
        IN  /\ packet.buffer = <<8, 0, Hi(ck), Lo(ck), Hi(i), Lo(i), Hi(q), Lo(q)>>
            /\ (i = 4 /\ q = 2) => packet.buffer = <<8, 0, 247, 249, 0, 4, 0, 2>>

\* the fixture's header was built over an array of 0xFF bytes
C11_Witness ==
    /\ pc = "built"
    /\ last.pre.buffer = <<255, 255, 255, 255, 255, 255, 255, 255>>
    /\ last.arg = <<4, 2>>
    /\ packet.buffer = <<8, 0, 247, 249, 0, 4, 0, 2>>

\* C12: for every identifier i, sequence number s and payload, the bytes
\* new; set_identifier(i); set_sequence_number(s); update_checksum produce
\* are accepted by parse, the parsed packet downcasts to EchoRequest, and
\* there get_identifier() = i and get_sequence_number() = s.
C12_BuildParseRoundTrip ==
    /\ pc # "rejected"
    /\ pc # "not_downcast"
    /\ pc = "parsed" =>
        /\ packet.type = "Unknown" /\ packet.checksum = "Valid"
    /\ pc = "downcast" =>
        /\ packet.type = "EchoRequest"
        /\ packet.checksum = "Valid"
        /\ get_identifier(packet) = last.arg[1]
        /\ get_sequence_number(packet) = last.arg[2]
        /\ payload(packet) = payload(last.pre)

\* a packet with a payload and a two-byte identifier came back
C12_Witness ==
    /\ pc = "downcast"
    /\ Len(payload(packet)) > 0
    /\ last.arg = <<258, 65535>>
    /\ get_identifier(packet) = 258
    /\ at(last.pre.buffer, 0) # 8

\* C13: for every buffer parse accepts, inverting any single bit of the
\* checksum field (bytes 2..4) gives a buffer parse rejects, handing the
\* corrupted buffer back unchanged.
C13_CorruptionDetected ==
    last.op = "parse_flipped" =>
        /\ ~last.ok
        /\ pc = "raw"
        /\ packet = NoPacket
        /\ bytes = last.pre.buffer
        /\ parse(FlipBit(bytes, last.arg)).ok
        /\ SameExcept(bytes, FlipBit(bytes, last.arg), {2, 3})
        /\ ~verify_checksum(bytes)

\* the top bit of the field of an odd-length packet was inverted
C13_Witness ==
    /\ last.op = "parse_flipped" /\ ~last.ok
    /\ last.arg = 15
    /\ Len(bytes) % 2 = 1
    /\ at(bytes, 2) # at(FlipBit(bytes, 15), 2)

\* C14 as stated: update_checksum is the only operation that produces a
\* Valid label; any other operation returning a Valid packet received a
\* Valid packet and changed no byte.
C14_OnlyUpdateChecksum ==
    /\ (pc = "packet" /\ packet.checksum = "Valid"
            /\ last.op \notin {"none", "update_checksum"}) =>
        /\ last.pre.checksum = "Valid"
        /\ packet.buffer = last.pre.buffer
    /\ (last.op = "clone" /\ last.out.checksum = "Valid") =>
        /\ last.pre.checksum = "Valid"
        /\ last.out.buffer = last.pre.buffer

\* C14 amended: a Valid label is produced by update_checksum, by parse (on
\* bytes that pass verify_checksum, which it leaves as they are) and by the
\* EchoRequest -> EchoReply conversion (which recomputes the checksum);
\* any other operation returning a Valid packet received a Valid packet
\* and changed no byte.
C14_ValidProducers ==
    /\ (pc = "packet" /\ packet.checksum = "Valid"
            /\ last.op \notin {"none", "update_checksum", "parse", "into_EchoReply"}) =>
        /\ last.pre.checksum = "Valid"
        /\ packet.buffer = last.pre.buffer
    /\ (last.op = "clone" /\ last.out.checksum = "Valid") =>
        /\ last.pre.checksum = "Valid"
        /\ last.out.buffer = last.pre.buffer
    /\ (last.op = "parse" /\ last.ok) =>
        /\ packet.buffer = last.pre.buffer
        /\ verify_checksum(packet.buffer)
    /\ last.op = "into_EchoReply" =>
        get_checksum(packet) = compute_checksum(as_bytes(packet), CHECKSUM_start)

\* a downcast handed a Valid packet on, bytes untouched
C14_Witness ==
    /\ last.op = "downcast_EchoReply" /\ last.ok
    /\ last.pre.checksum = "Valid"
    /\ packet.checksum = "Valid"
    /\ packet.buffer = last.pre.buffer

\* C15 as stated: set_identifier and set_sequence_number are offered on a
\* packet of any subtype, in place when Invalid and consuming when Valid;
\* the identifier and sequence-number getters are offered on a packet of
\* any subtype, Unknown included.
C15_OfferedOnAnyPacket ==
    pc = "packet" =>
        /\ ENABLED SetIdentifier
        /\ ENABLED SetSequenceNumber
        /\ ENABLED GetIdentifier
        /\ ENABLED GetSequenceNumber

Echo == {"EchoReply", "EchoRequest"}

\* C15 amended: set_identifier and set_sequence_number are offered only on
\* an Invalid-marked EchoRequest or EchoReply packet, where they mutate in
\* place and leave it Invalid; a Valid-marked packet offers no form of them;
\* the identifier and sequence-number getters are offered on EchoRequest
\* and EchoReply packets with either marker, and not on Unknown.
C15_OfferedOnEcho ==
    /\ ENABLED SetIdentifier <=>
        (pc = "packet" /\ packet.type \in Echo /\ packet.checksum = "Invalid")
    /\ ENABLED SetSequenceNumber <=>
        (pc = "packet" /\ packet.type \in Echo /\ packet.checksum = "Invalid")
    /\ ENABLED GetIdentifier <=> (pc = "packet" /\ packet.type \in Echo)
    /\ ENABLED GetSequenceNumber <=> (pc = "packet" /\ packet.type \in Echo)
    /\ last.op \in {"set_identifier", "set_sequence_number"} =>
        /\ last.pre.type \in Echo
        /\ last.pre.checksum = "Invalid"
        /\ packet.checksum = "Invalid"
        /\ packet.type = last.pre.type
    /\ last.op \in {"get_identifier", "get_sequence_number"} =>
        /\ last.pre.type \in Echo
        /\ packet = last.pre

\* the identifier of a Valid EchoReply was read; no setter is offered there
C15_Witness ==
    /\ last.op = "get_identifier"
    /\ packet.type = "EchoReply" /\ packet.checksum = "Valid"
    /\ ~ENABLED SetIdentifier
    /\ ~ENABLED SetSequenceNumber

\* C16: on an Invalid Echo packet set_identifier(x) writes x big-endian into
\* bytes 4..6 and set_sequence_number(y) writes y big-endian into bytes 6..8,
\* each changing no other byte; then get_identifier() = x and
\* get_sequence_number() = y; the two setters commute; neither changes the
\* subtype marker, the checksum marker or the length.
C16_EchoSetters ==
    /\ last.op = "set_identifier" =>
        /\ SameExcept(packet.buffer, last.pre.buffer, {4, 5})
        /\ at(packet.buffer, 4) = Hi(last.arg)
        /\ at(packet.buffer, 5) = Lo(last.arg)
        /\ get_identifier(packet) = last.arg
        /\ get_sequence_number(packet) = get_sequence_number(last.pre)
        /\ packet.type = last.pre.type
        /\ packet.checksum = last.pre.checksum
        /\ \A y \in SeqArgs :
            set_sequence_number(set_identifier(last.pre, last.arg), y)
                = set_identifier(set_sequence_number(last.pre, y), last.arg)
    /\ last.op = "set_sequence_number" =>
        /\ SameExcept(packet.buffer, last.pre.buffer, {6, 7})
        /\ at(packet.buffer, 6) = Hi(last.arg)
        /\ at(packet.buffer, 7) = Lo(last.arg)
        /\ get_sequence_number(packet) = last.arg
        /\ get_identifier(packet) = get_identifier(last.pre)
        /\ packet.type = last.pre.type
        /\ packet.checksum = last.pre.checksum
        /\ \A x \in IdentArgs :
            set_sequence_number(set_identifier(last.pre, x), last.arg)
                = set_identifier(set_sequence_number(last.pre, last.arg), x)

\* set_sequence_number ran on a packet whose identifier is not zero
C16_Witness ==
    /\ last.op = "set_sequence_number"
    /\ get_identifier(last.pre) = 65535
    /\ get_sequence_number(last.pre) # last.arg
    /\ get_sequence_number(packet) = last.arg

\* C17: len() is the length (header + data) of the packet: for every
\* reachable packet it equals the number of bytes of the backing buffer and
\* 8 + payload().len(), also for buffers of 65536 bytes or more.
C17_LenIsBufferLength ==
    /\ last.op = "len" =>
        /\ last.arg = Len(packet.buffer)
        /\ last.arg = HEADER_SIZE + Len(payload(packet))
    /\ last.op = "payload" =>
        last.arg + HEADER_SIZE = Len(packet.buffer)

\* C18: in every reachable state the bytes of every Valid-marked packet pass
\* verify_checksum (the folded one's-complement sum of all words, stored
\* field included, is 0xFFFF), after any sequence of parse, downcast, clone,
\* Valid setters followed by update_checksum, and EchoRequest -> EchoReply;
\* payload bytes are written only while the packet is Invalid-marked.
C18_ValidVerifies ==
    /\ \A p \in LivePackets :
        p.checksum = "Valid" => verify_checksum(as_bytes(p))
    /\ (/\ pc = "packet"
        /\ last.pre.type # "None"
        /\ payload(packet) # payload(last.pre)) =>
            /\ last.op = "payload_mut"
            /\ last.pre.checksum = "Invalid"
            /\ packet.checksum = "Invalid"
    /\ ENABLED PayloadMut => packet.checksum = "Invalid"

\* a Valid request with a payload became a reply that verifies
C18_Witness ==
    /\ last.op = "into_EchoReply"
    /\ last.pre.checksum = "Valid"
    /\ Len(payload(packet)) = 1
    /\ packet.checksum = "Valid"
    /\ verify_checksum(as_bytes(packet))
    /\ ~ENABLED PayloadMut

\* C19: every reachable Packet has a buffer of at least 8 bytes and no
\* packet operation changes the buffer's length, so every offset the
\* accessors use (0..7, and 8.. for the payload) is inside the buffer; the
\* only fatal failure is new on a buffer shorter than 8 bytes.
C19_HeaderAlwaysPresent ==
    /\ \A p \in LivePackets :
        /\ Len(p.buffer) >= HEADER_SIZE
        /\ SEQ_NO_end <= Len(p.buffer)
        /\ PAYLOAD_start <= Len(p.buffer)
    /\ pc = "packet" => Len(packet.buffer) = Len(last.pre.buffer)
    /\ last.op = "clone" => Len(last.out.buffer) = Len(last.pre.buffer)
    /\ pc = "panicked" =>
        /\ last.op = "new"
        /\ Len(bytes) < HEADER_SIZE
    /\ (last.op = "new" /\ Len(last.pre.buffer) >= HEADER_SIZE) => pc = "packet"

\* parse wrapped a buffer of exactly the header size: the payload is empty
C19_Witness ==
    /\ pc = "packet" /\ last.op = "parse"
    /\ Len(packet.buffer) = HEADER_SIZE
    /\ payload(packet) = <<>>

\* C20: the subtype marker moves only along Unknown -> {EchoRequest,
\* EchoReply} and EchoRequest -> EchoReply: no operation on an EchoReply
\* packet makes it EchoRequest or Unknown, a known-subtype packet offers
\* neither set_type nor set_code, and only the EchoRequest -> EchoReply
\* conversion changes the type byte of a known-subtype packet.
C20_SubtypeOneWay ==
    /\ (pc = "packet" /\ last.pre.type = "EchoReply") =>
        packet.type = "EchoReply"
    /\ (pc = "packet" /\ last.pre.type = "EchoRequest") =>
        /\ packet.type \in Echo
        /\ packet.type = "EchoReply" <=> last.op = "into_EchoReply"
    /\ last.op = "clone" => last.out.type = last.pre.type
    /\ ENABLED SetType => packet.type = "Unknown"
    /\ ENABLED SetCode => packet.type = "Unknown"
    /\ ENABLED Downcast => packet.type = "Unknown"
    /\ ENABLED IntoEchoReply => packet.type = "EchoRequest"
    /\ (/\ pc = "packet"
        /\ last.pre.type \in Echo
        /\ at(packet.buffer, TYPE) # at(last.pre.buffer, TYPE)) =>
            last.op = "into_EchoReply"

\* a request became a reply; nothing offered leads back
C20_Witness ==
    /\ last.op = "into_EchoReply"
    /\ last.pre.type = "EchoRequest"
    /\ packet.type = "EchoReply"
    /\ at(packet.buffer, TYPE) # at(last.pre.buffer, TYPE)
    /\ ~ENABLED SetType
    /\ ~ENABLED Downcast
    /\ ~ENABLED IntoEchoReply

====
